---- MODULE Spec2Model ----
(***************************************************************************)
(* gclint (src/gclint.go): an analysis pass that walks the syntax tree of  *)
(* a package with inspector.WithStack and reports three suspicious uses of *)
(* ir.Node: maps keyed by ir.Node, == / != on ir.Node values and, with the *)
(* -assign flag, *ir.Name values flowing into ir.Node slots.               *)
(*                                                                         *)
(* The inputs of the pass are a syntax tree (go/ast), the type information *)
(* of its expressions (go/types.Info) and the command line.  They are      *)
(* drawn in Init from bounded families of trees; the traversal driver then *)
(* delivers one push and one pop event per node, and the actions apply the *)
(* callback of run to each event.  The pass is executed twice in a row     *)
(* over the same tree, once per command line, so that two executions can   *)
(* be compared.                                                            *)
(***************************************************************************)
EXTENDS Integers, Sequences, FiniteSets, TLC

\* Largest number of assignment slots, parameters and results of an input.
MaxArity == 2

-----------------------------------------------------------------------------
(* go/types descriptors: objects, types, TypeAndValue.                     *)

irPkgPath == "cmd/compile/internal/ir"
otherPkgPath == "example.com/other"
\* obj.Pkg() == nil (an object of the universe scope, such as error).
NilPkg == "<nil>"

NilType == [k |-> "nil"]
Basic(name) == [k |-> "Basic", name |-> name]
Object(pkg, name, type) == [pkg |-> pkg, name |-> name, type |-> type]
NoObj == [pkg |-> NilPkg, name |-> "", type |-> NilType]
Named(pkg, name, under) ==
    [k |-> "Named", obj |-> Object(pkg, name, NilType), under |-> under]
Pointer(elem) == [k |-> "Pointer", elem |-> elem]
Slice(elem) == [k |-> "Slice", elem |-> elem]
Signature(params, variadic, results) ==
    [k |-> "Signature", params |-> params, variadic |-> variadic,
     results |-> results]

IrNode == Named(irPkgPath, "Node", Basic("interface"))
IrName == Named(irPkgPath, "Name", Basic("struct"))
IrFunc == Named(irPkgPath, "Func", Basic("struct"))
OtherNode == Named(otherPkgPath, "Node", Basic("interface"))
OtherName == Named(otherPkgPath, "Name", Basic("struct"))
OtherFunc == Named(otherPkgPath, "Func", Basic("struct"))
UniverseNode == Named(NilPkg, "Node", Basic("interface"))
PtrIrName == Pointer(IrName)
PtrIrFunc == Pointer(IrFunc)
PtrIrNode == Pointer(IrNode)
UntypedNil == Basic("untyped nil")
Bool == Basic("bool")

\* info.Types[e]: the zero TypeAndValue when the map has no entry for e.
NoTV == [mode |-> "invalid", type |-> NilType]
Val(t) == [mode |-> "value", type |-> t]
TypeExpr(t) == [mode |-> "typexpr", type |-> t]
BuiltinTV == [mode |-> "builtin", type |-> NilType]
NilTV == Val(UntypedNil)

IsValue(tv) == tv.mode \in {"constant", "variable", "mapindex", "value", "commaok"}
IsNil(tv) == tv.mode = "value" /\ tv.type = UntypedNil

-----------------------------------------------------------------------------
(* go/ast nodes.  A node is a record; kids are its children in the order   *)
(* the inspector visits them.  Per kind:                                   *)
(*   MapType      kids = <<Key, Value>>                                    *)
(*   BinaryExpr   kids = <<X, Y>>, op                                      *)
(*   AssignStmt   kids = Lhs \o Rhs, nlhs = Len(Lhs)                       *)
(*   CallExpr     kids = <<Fun>> \o Args, ellipsis = Ellipsis.IsValid()    *)
(*   ReturnStmt   kids = Results                                           *)
(*   SelectorExpr kids = <<X, Sel>>                                        *)
(*   FuncDecl     kids = <<Name, Body>>;  FuncLit kids = <<Body>>          *)
(*   Ident        obj = the object info.Uses / info.Defs records for it    *)
(* tv is the entry of info.Types for the node.                             *)

Nd(kind, tv, kids) ==
    [kind |-> kind, tv |-> tv, kids |-> kids, op |-> "", ellipsis |-> FALSE,
     nlhs |-> 0, obj |-> NoObj]
Ident(tv) == Nd("Ident", tv, <<>>)
IdentObj(obj) == [Nd("Ident", NoTV, <<>>) EXCEPT !.obj = obj]
MapTypeNode(key, value) == Nd("MapType", TypeExpr(Basic("map")), <<key, value>>)
BinaryNode(op, x, y) == [Nd("BinaryExpr", Val(Bool), <<x, y>>) EXCEPT !.op = op]
AssignNode(lhs, rhs) ==
    [Nd("AssignStmt", NoTV, lhs \o rhs) EXCEPT !.nlhs = Len(lhs)]
CallNode(fun, args, ell) ==
    [Nd("CallExpr", Val(Basic("void")), <<fun>> \o args) EXCEPT !.ellipsis = ell]
ReturnNode(results) == Nd("ReturnStmt", NoTV, results)
SelectorNode(t, obj) ==
    Nd("SelectorExpr", Val(t), <<Ident(Val(PtrIrName)), IdentObj(obj)>>)
BlockNode(stmts) == Nd("BlockStmt", NoTV, stmts)
FuncLitNode(sig, stmt) == Nd("FuncLit", Val(sig), <<BlockNode(<<stmt>>)>>)
FuncDeclNode(sig, stmt) ==
    Nd("FuncDecl", NoTV,
       <<IdentObj(Object(irPkgPath, "f", sig)), BlockNode(<<stmt>>)>>)
FileNode(decls) == Nd("File", NoTV, decls)

\* n.(ast.Expr): the kinds that implement ast.Expr.
ExprKinds ==
    {"Ident", "MapType", "BinaryExpr", "CallExpr", "SelectorExpr", "FuncLit"}

\* All sequences over S of length n.
Tuples(S, n) == [1..n -> S]

-----------------------------------------------------------------------------
(* The input families.  A file holds one construct (two in MixedTrees);     *)
(* the declarations and statements of other kinds that would enclose it    *)
(* are left out, the code treating every other kind alike.  The families   *)
(* include what the type checker would refuse to hand over (a return       *)
(* statement outside any function), which the resolver answers by a panic. *)

KeyTVs ==
    {TypeExpr(t) : t \in {IrNode, OtherNode, UniverseNode, IrName, PtrIrNode,
                          Bool}} \cup {NoTV}
ValueLeaves == {Ident(TypeExpr(Bool)), Ident(TypeExpr(IrNode))}
FlatMaps == {MapTypeNode(Ident(k), v) : k \in KeyTVs, v \in ValueLeaves}
MapTrees ==
    {MapTypeNode(Ident(k), v) : k \in KeyTVs, v \in ValueLeaves \cup FlatMaps}

OperandTVs ==
    {Val(IrNode), Val(OtherNode), Val(PtrIrName), Val(PtrIrFunc),
     Val(Pointer(OtherFunc)), NilTV, NoTV}
BinaryTrees ==
    {BinaryNode(op, Ident(x), Ident(y)) :
        op \in {"==", "!=", "<"}, x \in OperandTVs, y \in OperandTVs}

DefnObj == Object(irPkgPath, "Defn", IrNode)
LhsSlots ==
    {Ident(Val(IrNode)), Ident(Val(PtrIrName)), Ident(NoTV),
     SelectorNode(IrNode, DefnObj),
     SelectorNode(IrNode, Object(otherPkgPath, "Defn", IrNode)),
     SelectorNode(IrNode, Object(irPkgPath, "Curfn", IrNode)),
     SelectorNode(IrNode, NoObj)}
RhsExprs == {Ident(Val(PtrIrName)), Ident(Val(IrNode))}
AssignTrees ==
    UNION {{AssignNode(l, r) : l \in Tuples(LhsSlots, n), r \in Tuples(RhsExprs, n)} :
            n \in 1..MaxArity}

SlotTypes == {IrNode, PtrIrName}
ArgExprs == {Ident(Val(PtrIrName)), Ident(Val(IrNode))}
\* The signatures with n parameters; a variadic one ends in a slice.
Signatures(n) ==
    {Signature(p, FALSE, <<>>) : p \in Tuples(SlotTypes, n)}
    \cup {Signature([p EXCEPT ![n] = Slice(p[n])], TRUE, <<>>) :
            p \in Tuples(SlotTypes, n)}
\* The callee is a func value: of a signature type, or of a defined type
\* whose underlying type is the signature (type F func(...); var f F).
CalleeTVs(sig) == {Val(sig), Val(Named(otherPkgPath, "F", sig))}
ArgCounts(sig, ell) ==
    IF sig.variadic /\ ~ell
    THEN (Len(sig.params) - 1)..(Len(sig.params) + 1)
    ELSE {Len(sig.params)}
ArgLists(sig, ell, n) ==
    IF ell
    THEN {[a EXCEPT ![n] = Ident(Val(sig.params[n]))] : a \in Tuples(ArgExprs, n)}
    ELSE Tuples(ArgExprs, n)
FuncCalls ==
    UNION {UNION {UNION {UNION {
        {CallNode(Ident(f), a, ell) : f \in CalleeTVs(sig), a \in ArgLists(sig, ell, n)} :
            n \in ArgCounts(sig, ell)} :
            ell \in (IF sig.variadic THEN BOOLEAN ELSE {FALSE})} :
            sig \in Signatures(np)} :
            np \in 1..MaxArity}
\* Conversions T(x) and calls of builtins: the callee is not a value.
NonValueCalls ==
    {CallNode(Ident(f), <<a>>, FALSE) :
        f \in {TypeExpr(IrNode), TypeExpr(PtrIrName), BuiltinTV}, a \in ArgExprs}
CallTrees == FuncCalls \cup NonValueCalls

\* A return statement inside zero, one or two enclosing functions.
FuncKinds == {"FuncLit", "FuncDecl"}
Enclose(kind, sig, stmt) ==
    IF kind = "FuncLit" THEN FuncLitNode(sig, stmt) ELSE FuncDeclNode(sig, stmt)
ResultSigs(n) == {Signature(<<>>, FALSE, r) : r \in Tuples(SlotTypes, n)}
Returns(n) == {ReturnNode(r) : r \in Tuples(RhsExprs, n)}
Enclosed(n, stmts) ==
    {Enclose(k, s, st) : k \in FuncKinds, s \in ResultSigs(n), st \in stmts}
ReturnTrees ==
    UNION {Returns(n) \cup Enclosed(n, Returns(n))
           \cup Enclosed(n, Enclosed(n, Returns(n))) : n \in 1..MaxArity}

\* Two constructs side by side in one file.
MixedUnits ==
    {MapTypeNode(Ident(TypeExpr(IrNode)), Ident(TypeExpr(Bool))),
     BinaryNode("==", Ident(Val(IrNode)), Ident(Val(PtrIrName))),
     AssignNode(<<Ident(Val(IrNode))>>, <<Ident(Val(PtrIrName))>>),
     AssignNode(<<Ident(Val(IrNode))>>, <<Ident(Val(Pointer(OtherName)))>>),
     BinaryNode("!=", Ident(Val(PtrIrName)), Ident(NilTV)),
     CallNode(Ident(Val(Signature(<<IrNode>>, FALSE, <<>>))),
              <<Ident(Val(PtrIrName))>>, FALSE),
     FuncLitNode(Signature(<<>>, FALSE, <<IrNode>>),
                 ReturnNode(<<Ident(Val(PtrIrName))>>)),
     ReturnNode(<<Ident(Val(PtrIrName))>>)}
MixedTrees == {FileNode(<<u, v>>) : u \in MixedUnits, v \in MixedUnits}

TreeSet ==
    {FileNode(<<u>>) :
        u \in MapTrees \cup BinaryTrees \cup AssignTrees \cup CallTrees
              \cup ReturnTrees} \cup MixedTrees

-----------------------------------------------------------------------------
(* The state of the program.                                               *)

VARIABLES
    tree,        \* the syntax tree with its type information (read-only)
    args,        \* args[r]: the command line of execution r (read-only)
    run,         \* the execution in progress: 1, 2, or 3 when both are over
    pc,          \* "ready", "walking", "finished" (one execution), "done"
    flagAssign,  \* *flagAssign, set when the command line is parsed
    stack,       \* the inspector's ancestor stack, the current node last
    child,       \* how many children of the stack top have been traversed
    proceed,     \* what the callback returned last
    diags,       \* the diagnostics reported so far in this execution
    panicked,    \* "" or the panic that ended this execution
    visited,     \* the nodes the callback has been given on push
    calls,       \* the invocations of assignedToNode: stack top and outcome
    out          \* the outcome of each execution that has ended

vars ==
    <<tree, args, run, pc, flagAssign, stack, child, proceed, diags, panicked,
      visited, calls, out>>

-----------------------------------------------------------------------------
(* Node references.  A node is referred to by its path from the root (the  *)
(* child indexes followed); two references are the same node iff the paths *)
(* are equal, which is what == on ast.Node pointers decides.               *)

RECURSIVE Sub(_, _)
Sub(t, path) == IF path = <<>> THEN t ELSE Sub(t.kids[Head(path)], Tail(path))
NodeAt(ref) == Sub(tree, ref)
Kid(ref, i) == Append(ref, i)
NumKids(ref) == Len(NodeAt(ref).kids)

RECURSIVE RefsUnder(_, _)
RefsUnder(t, ref) ==
    {ref} \cup UNION {RefsUnder(t.kids[i], Append(ref, i)) : i \in 1..Len(t.kids)}
AllRefs == RefsUnder(tree, <<>>)

\* info.Types[e]
Types(ref) == NodeAt(ref).tv
\* n.Pos(): a position is identified with the node it anchors.
Pos(ref) == ref

Key(ref) == Kid(ref, 1)
X(ref) == Kid(ref, 1)
Y(ref) == Kid(ref, 2)
Fun(ref) == Kid(ref, 1)
NumArgs(ref) == NumKids(ref) - 1
Arg(ref, i) == Kid(ref, i + 1)
NumLhs(ref) == NodeAt(ref).nlhs
NumRhs(ref) == NumKids(ref) - NumLhs(ref)
Lhs(ref, i) == Kid(ref, i)
Rhs(ref, i) == Kid(ref, NumLhs(ref) + i)
NumResults(ref) == NumKids(ref)
Result(ref, i) == Kid(ref, i)
Sel(ref) == Kid(ref, 2)
Name(ref) == Kid(ref, 1)

Min(S) == CHOOSE x \in S : \A y \in S : x <= y
Max(S) == CHOOSE x \in S : \A y \in S : x >= y

-----------------------------------------------------------------------------
(* Type classifier.                                                        *)

\* Mutant: the package of the object is not compared.
isNamedObject_AnyPkg(obj, pkgPath, name) == obj.name = name

isNamedObject(obj, pkgPath, name) ==
    obj.pkg # NilPkg /\ obj.pkg = pkgPath /\ obj.name = name

isNamedType(typ, pkgPath, name) ==
    typ.k = "Named" /\ isNamedObject(typ.obj, pkgPath, name)

isPtrToNamedType(typ, pkgPath, name) ==
    typ.k = "Pointer" /\ isNamedType(typ.elem, pkgPath, name)

isPtrToFuncType(typ) == isPtrToNamedType(typ, irPkgPath, "Func")
isPtrToNameType(typ) == isPtrToNamedType(typ, irPkgPath, "Name")
isNodeType(typ) == isNamedType(typ, irPkgPath, "Node")

\* Mutant: any selected object called Defn is exempt, whatever its package.
isNameDefnField_AnyPkg(ref) ==
    /\ NodeAt(ref).kind = "SelectorExpr"
    /\ NodeAt(Sel(ref)).obj.name = "Defn"

isNameDefnField(ref) ==
    /\ NodeAt(ref).kind = "SelectorExpr"
    /\ LET obj == NodeAt(Sel(ref)).obj
       IN obj # NoObj /\ isNamedObject(obj, irPkgPath, "Defn")

-----------------------------------------------------------------------------
(* Ancestor context resolver.  An outcome is a returned value or a panic.  *)

Ret(b) == [panic |-> "", val |-> b]
Panic(msg) == [panic |-> msg, val |-> FALSE]
NotSignature == "interface conversion: types.Type is not *types.Signature"
NotSlice == "interface conversion: types.Type is not *types.Slice"
OutOfRange == "index out of range"
NilDeref == "nil pointer dereference"
DidntFind == "didn't find n in parent"
NoEnclosing == "no enclosing function declaration or literal"

\* Mutant: the stack is scanned from the root, so the outermost function wins.
funcScope_Outermost(stk) ==
    LET fs == {i \in 1..Len(stk) : NodeAt(stk[i]).kind \in {"FuncLit", "FuncDecl"}}
    IN  IF fs = {} THEN [panic |-> NoEnclosing, type |-> NilType]
        ELSE LET f == stk[Min(fs)]
             IN  IF NodeAt(f).kind = "FuncLit"
                 THEN [panic |-> "", type |-> Types(f).type]
                 ELSE IF NodeAt(Name(f)).obj = NoObj
                      THEN [panic |-> NilDeref, type |-> NilType]
                      ELSE [panic |-> "", type |-> NodeAt(Name(f)).obj.type]

\* The outcome of funcScope: [panic, type].
funcScope(stk) ==
    LET fs == {i \in 1..Len(stk) : NodeAt(stk[i]).kind \in {"FuncLit", "FuncDecl"}}
    IN  IF fs = {} THEN [panic |-> NoEnclosing, type |-> NilType]
        ELSE LET f == stk[Max(fs)]
             IN  IF NodeAt(f).kind = "FuncLit"
                 THEN [panic |-> "", type |-> Types(f).type]
                 ELSE IF NodeAt(Name(f)).obj = NoObj
                      THEN [panic |-> NilDeref, type |-> NilType]
                      ELSE [panic |-> "", type |-> NodeAt(Name(f)).obj.type]

\* Mutant: an assignment that does not list n panics, as a call does.
assignCase_PanicNotFound(stk) ==
    LET n == stk[Len(stk)]
        parent == stk[Len(stk) - 1]
        hits == {i \in 1..NumRhs(parent) : Rhs(parent, i) = n}
        i == Min(hits)
    IN  IF hits = {} THEN Panic(DidntFind)
        ELSE IF i > NumLhs(parent) THEN Panic(OutOfRange)
        ELSE IF isNameDefnField(Lhs(parent, i)) THEN Ret(FALSE)
        ELSE Ret(isNodeType(Types(Lhs(parent, i)).type))

\* case *ast.AssignStmt.  When no right-hand side is n the loop ends, the
\* switch is left and the function returns false.
assignCase(stk) ==
    LET n == stk[Len(stk)]
        parent == stk[Len(stk) - 1]
        hits == {i \in 1..NumRhs(parent) : Rhs(parent, i) = n}
        i == Min(hits)
    IN  IF hits = {} THEN Ret(FALSE)
        ELSE IF i > NumLhs(parent) THEN Panic(OutOfRange)
        ELSE IF isNameDefnField(Lhs(parent, i)) THEN Ret(FALSE)
        ELSE Ret(isNodeType(Types(Lhs(parent, i)).type))

\* case *ast.CallExpr.  i counts the arguments from 0, as the code does.
callCase(stk) ==
    LET n == stk[Len(stk)]
        parent == stk[Len(stk) - 1]
        tv == Types(Fun(parent))
        sig == tv.type
        nparams == Len(sig.params)
        hits == {i \in 0..(NumArgs(parent) - 1) : Arg(parent, i + 1) = n}
        i == Min(hits)
    IN  IF ~IsValue(tv) THEN Ret(FALSE)
        ELSE IF sig.k # "Signature" THEN Panic(NotSignature)
        ELSE IF hits = {} THEN Panic(DidntFind)
        ELSE IF sig.variadic /\ ~NodeAt(parent).ellipsis /\ i >= nparams - 1
             THEN IF nparams = 0 THEN Panic(OutOfRange)
                  ELSE IF sig.params[nparams].k # "Slice" THEN Panic(NotSlice)
                  ELSE Ret(isNodeType(sig.params[nparams].elem))
        ELSE IF i >= nparams THEN Panic(OutOfRange)
        ELSE Ret(isNodeType(sig.params[i + 1]))

\* case *ast.ReturnStmt.
returnCase(stk) ==
    LET n == stk[Len(stk)]
        parent == stk[Len(stk) - 1]
        fs == funcScope(stk)
        hits == {i \in 1..NumResults(parent) : Result(parent, i) = n}
        i == Min(hits)
    IN  IF fs.panic # "" THEN Panic(fs.panic)
        ELSE IF fs.type.k # "Signature" THEN Panic(NotSignature)
        ELSE IF hits = {} THEN Panic(DidntFind)
        ELSE IF i > Len(fs.type.results) THEN Panic(OutOfRange)
        ELSE Ret(isNodeType(fs.type.results[i]))

assignedToNode(stk) ==
    LET kind == NodeAt(stk[Len(stk) - 1]).kind
    IN  CASE kind = "AssignStmt" -> assignCase(stk)
          [] kind = "CallExpr" -> callCase(stk)
          [] kind = "ReturnStmt" -> returnCase(stk)
          [] OTHER -> Ret(FALSE)

-----------------------------------------------------------------------------
(* Pattern detectors and the traversal callback.                           *)

MapMsg == "map with ir.Node key (likely change key type to *ir.Name)"
CmpMsg == "comparison of ir.Node values (replace with ir.Uses or ir.SameSource)"
AssignMsg == "*ir.Name assigned to ir.Node (maybe change destination to *ir.Name too)"

\* Mutant: a diagnostic an earlier execution reported is not reported again.
Reportf_Once(pos, msg) ==
    IF \E r \in 1..Len(out) : \E i \in 1..Len(out[r].diags) :
            out[r].diags[i] = [pos |-> pos, msg |-> msg]
    THEN <<>>
    ELSE <<[pos |-> pos, msg |-> msg]>>

\* pass.Reportf(pos, msg): the diagnostics a report adds.
Reportf(pos, msg) == <<[pos |-> pos, msg |-> msg]>>

\* case *ast.MapType
mapKeyCheck(n) ==
    IF isNodeType(Types(Key(n)).type) THEN Reportf(Pos(n), MapMsg) ELSE <<>>

\* Mutant: an ir.Node on either side is reported.
equalityCheck_EitherSide(n) ==
    LET xtv == Types(X(n))
        ytv == Types(Y(n))
    IN  IF NodeAt(n).op \in {"==", "!="}
        THEN IF IsNil(xtv) \/ IsNil(ytv) THEN <<>>
             ELSE IF isPtrToFuncType(xtv.type) \/ isPtrToFuncType(ytv.type) THEN <<>>
             ELSE IF isNodeType(xtv.type) \/ isNodeType(ytv.type)
                  THEN Reportf(Pos(n), CmpMsg)
             ELSE <<>>
        ELSE <<>>

\* case *ast.BinaryExpr
equalityCheck(n) ==
    LET xtv == Types(X(n))
        ytv == Types(Y(n))
    IN  IF NodeAt(n).op \in {"==", "!="}
        THEN IF IsNil(xtv) \/ IsNil(ytv) THEN <<>>
             ELSE IF isPtrToFuncType(xtv.type) \/ isPtrToFuncType(ytv.type) THEN <<>>
             ELSE IF isNodeType(xtv.type) THEN Reportf(Pos(n), CmpMsg)
             ELSE <<>>
        ELSE <<>>

\* The type switch on n.
typeSwitch(n) ==
    CASE NodeAt(n).kind = "MapType" -> mapKeyCheck(n)
      [] NodeAt(n).kind = "BinaryExpr" -> equalityCheck(n)
      [] OTHER -> <<>>

\* Mutant: tv.IsValue() is not asked.
reachesResolver_AnyMode(n, flag) ==
    /\ flag
    /\ NodeAt(n).kind \in ExprKinds
    /\ isPtrToNameType(Types(n).type)

\* Whether the assignment check gets as far as calling assignedToNode.
reachesResolver(n, flag) ==
    /\ flag
    /\ NodeAt(n).kind \in ExprKinds
    /\ IsValue(Types(n)) /\ isPtrToNameType(Types(n).type)

\* if *flagAssign { ... }: the reports, the panic, the resolver invocations.
assignCheck(n, stk, flag) ==
    IF reachesResolver(n, flag)
    THEN LET res == assignedToNode(stk)
         IN  [reports |-> IF res.panic = "" /\ res.val
                          THEN Reportf(Pos(n), AssignMsg) ELSE <<>>,
              panic |-> res.panic,
              calls |-> {[stack |-> stk, res |-> res]}]
    ELSE [reports |-> <<>>, panic |-> "", calls |-> {}]

\* The callback on a push event: the type switch, then the assignment check.
callbackPush(n, stk, flag) ==
    LET a == assignCheck(n, stk, flag)
    IN  [proceed |-> TRUE, reports |-> typeSwitch(n) \o a.reports,
         panic |-> a.panic, calls |-> a.calls]

\* Mutant: the callback returns false for a node it has reported.
callback_StopOnReport(n, push, stk, flag) ==
    IF ~push
    THEN [proceed |-> TRUE, reports |-> <<>>, panic |-> "", calls |-> {}]
    ELSE [callbackPush(n, stk, flag) EXCEPT
            !.proceed = (callbackPush(n, stk, flag).reports = <<>>)]

\* The function literal given to inspect.WithStack.
callback(n, push, stk, flag) ==
    IF ~push
    THEN [proceed |-> TRUE, reports |-> <<>>, panic |-> "", calls |-> {}]
    ELSE callbackPush(n, stk, flag)

-----------------------------------------------------------------------------
(* Configuration.                                                          *)

\* Mutant: the detector is on by default.
flagDefault_On == TRUE

\* flag.Bool("assign", false, ...): the value when the flag is not given.
flagDefault == FALSE
ParseFlag(arg) == IF arg = "-assign" THEN TRUE ELSE flagDefault
ArgSets == {<<"", "">>, <<"", "-assign">>, <<"-assign", "-assign">>}

-----------------------------------------------------------------------------
(* The traversal: inspector.WithStack(nil, f) pushes a node, calls         *)
(* f(n, true, stack), traverses the children when f returned true, calls   *)
(* f(n, false, stack) and pops.  A panic in f ends the execution.          *)

Init ==
    /\ tree \in TreeSet
    /\ args \in ArgSets
    /\ run = 1
    /\ pc = "ready"
    /\ flagAssign = ParseFlag(args[1])
    /\ stack = <<>>
    /\ child = 0
    /\ proceed = TRUE
    /\ diags = <<>>
    /\ panicked = ""
    /\ visited = {}
    /\ calls = {}
    /\ out = <<>>

Top == stack[Len(stack)]
\* The node the driver pushes next.
NextNode == IF pc = "ready" THEN <<>> ELSE Kid(Top, child + 1)
CanPush ==
    \/ pc = "ready"
    \/ pc = "walking" /\ child < NumKids(Top)

Push ==
    /\ CanPush
    /\ LET n == NextNode
           stk == Append(stack, n)
           r == callback(n, TRUE, stk, flagAssign)
       IN  /\ diags' = diags \o r.reports
           /\ visited' = visited \cup {n}
           /\ calls' = calls \cup r.calls
           /\ panicked' = r.panic
           /\ proceed' = r.proceed
           /\ IF r.panic # ""
              THEN pc' = "finished" /\ stack' = stk /\ child' = 0
              ELSE IF r.proceed
              THEN pc' = "walking" /\ stack' = stk /\ child' = 0
              ELSE IF n = <<>>
              THEN pc' = "finished" /\ stack' = <<>> /\ child' = 0
              ELSE pc' = "walking" /\ stack' = stack /\ child' = n[Len(n)]
    /\ UNCHANGED <<tree, args, run, flagAssign, out>>

Pop ==
    /\ pc = "walking" /\ child = NumKids(Top)
    /\ LET n == Top
           r == callback(n, FALSE, stack, flagAssign)
       IN  /\ diags' = diags \o r.reports
           /\ calls' = calls \cup r.calls
           /\ panicked' = r.panic
           /\ proceed' = r.proceed
           /\ stack' = SubSeq(stack, 1, Len(stack) - 1)
           /\ IF r.panic # "" \/ n = <<>>
              THEN pc' = "finished" /\ child' = 0
              ELSE pc' = "walking" /\ child' = n[Len(n)]
    /\ UNCHANGED <<tree, args, run, flagAssign, visited, out>>

\* One execution is over; the next one starts from a fresh process.
Finish ==
    /\ pc = "finished"
    /\ out' = Append(out, [diags |-> diags, panic |-> panicked, visited |-> visited])
    /\ run' = run + 1
    /\ IF run = 1
       THEN /\ pc' = "ready"
            /\ flagAssign' = ParseFlag(args[2])
            /\ stack' = <<>> /\ child' = 0 /\ proceed' = TRUE /\ diags' = <<>>
            /\ panicked' = "" /\ visited' = {} /\ calls' = {}
       ELSE /\ pc' = "done"
            /\ UNCHANGED <<flagAssign, stack, child, proceed, diags, panicked,
                           visited, calls>>
    /\ UNCHANGED <<tree, args>>

Next == Push \/ Pop \/ Finish

Spec == Init /\ [][Next]_vars

TypeOK ==
    /\ run \in 1..3
    /\ pc \in {"ready", "walking", "finished", "done", "resolve"}
    /\ flagAssign \in BOOLEAN
    /\ proceed \in BOOLEAN
    /\ visited \subseteq AllRefs

-----------------------------------------------------------------------------
(* The resolver on its own.  assignedToNode is applied, as at its one call *)
(* site, to a stack whose top n is a value of type *ir.Name.  Below n is   *)
(* the ancestor chain of its parent, which is the traversal contract, or   *)
(* the ancestor chain of a node where the resolver searches for n (a call  *)
(* of a func value, a return statement), which breaks the contract when n  *)
(* is not a child of that node.                                            *)

Ancestors(ref) == [i \in 1..(Len(ref) + 1) |-> SubSeq(ref, 1, i - 1)]
ParentRef(ref) == SubSeq(ref, 1, Len(ref) - 1)
SearchesFor(ref) ==
    \/ NodeAt(ref).kind = "ReturnStmt"
    \/ NodeAt(ref).kind = "CallExpr" /\ IsValue(Types(Fun(ref)))

InitResolver ==
    /\ tree \in TreeSet
    /\ args = <<"-assign", "-assign">>
    /\ run = 1
    /\ pc = "resolve"
    /\ flagAssign = ParseFlag(args[1])
    /\ stack = <<>>
    /\ child = 0
    /\ proceed = TRUE
    /\ diags = <<>>
    /\ panicked = ""
    /\ visited = {}
    /\ calls = {}
    /\ out = <<>>

Resolve ==
    /\ pc = "resolve" /\ calls = {}
    /\ \E n \in {m \in AllRefs \ {<<>>} : reachesResolver(m, flagAssign)} :
       \E p \in {ParentRef(n)} \cup {q \in AllRefs : SearchesFor(q)} :
          LET stk == Append(Ancestors(p), n)
          IN  /\ stack' = stk
              /\ calls' = {[stack |-> stk, res |-> assignedToNode(stk)]}
    /\ UNCHANGED <<tree, args, run, pc, flagAssign, child, proceed, diags,
                   panicked, visited, out>>

NextResolver == Resolve

SpecResolver == InitResolver /\ [][NextResolver]_vars

-----------------------------------------------------------------------------
(* Properties.                                                             *)

\* How many times the diagnostic (pos, msg) occurs in ds.
Count(ds, pos, msg) ==
    Cardinality({i \in 1..Len(ds) : ds[i] = [pos |-> pos, msg |-> msg]})
\* How many diagnostics of ds are anchored at pos.
CountAt(ds, pos) == Cardinality({i \in 1..Len(ds) : ds[i].pos = pos})
VisitedOf(kind) == {n \in visited : NodeAt(n).kind = kind}

\* a comes before b in depth-first preorder.
PreorderLess(a, b) ==
    \/ Len(a) < Len(b) /\ SubSeq(b, 1, Len(a)) = a
    \/ \E i \in 1..Len(a) :
          /\ i <= Len(b)
          /\ SubSeq(a, 1, i - 1) = SubSeq(b, 1, i - 1)
          /\ a[i] < b[i]

(* C1: a visited map type has exactly one diagnostic, the map-key one at   *)
(* its own position, when its key type is exactly ir.Node, and none        *)
(* otherwise (nil key type, Node of another package or of no package, a    *)
(* pointer to ir.Node), whatever the value type.                           *)
C1_MapKeyDiagnostic ==
    \A n \in VisitedOf("MapType") :
        LET want == IF NodeAt(Key(n)).tv.type = IrNode THEN 1 ELSE 0
        IN  Count(diags, n, MapMsg) = want /\ CountAt(diags, n) = want

C1_Witness ==
    \E n \in VisitedOf("MapType") :
        /\ NodeAt(Key(n)).tv.type = IrNode
        /\ NodeAt(Kid(n, 2)).kind = "MapType"
        /\ Count(diags, n, MapMsg) = 1

(* C2: a visited binary expression has the comparison diagnostic at its    *)
(* position iff the operator is == or !=, neither operand is untyped nil,  *)
(* neither operand is a *ir.Func and the left operand is an ir.Node.       *)
C2_EqualityDiagnostic ==
    \A n \in VisitedOf("BinaryExpr") :
        LET x == NodeAt(Kid(n, 1)).tv
            y == NodeAt(Kid(n, 2)).tv
            want == /\ NodeAt(n).op \in {"==", "!="}
                    /\ x # NilTV /\ y # NilTV
                    /\ x.type # PtrIrFunc /\ y.type # PtrIrFunc
                    /\ x.type = IrNode
        IN  /\ Count(diags, n, CmpMsg) = IF want THEN 1 ELSE 0
            /\ CountAt(diags, n) = IF want THEN 1 ELSE 0

C2_Witness ==
    \E n \in VisitedOf("BinaryExpr") :
        /\ NodeAt(n).op = "!="
        /\ NodeAt(Kid(n, 1)).tv = Val(IrNode)
        /\ NodeAt(Kid(n, 2)).tv = Val(PtrIrName)
        /\ Count(diags, n, CmpMsg) = 1

\* The slot is a selector of the field Defn declared in package ir.
IsDefnSelector(ref) ==
    /\ NodeAt(ref).kind = "SelectorExpr"
    /\ NodeAt(Kid(ref, 2)).obj.pkg = irPkgPath
    /\ NodeAt(Kid(ref, 2)).obj.name = "Defn"

(* C3: with the assignment detector enabled, a visited right-hand side of  *)
(* type *ir.Name at index i has one assignment diagnostic at its position  *)
(* when the left-hand side at index i has type ir.Node and is not a        *)
(* selector of ir's field Defn, and none otherwise; a right-hand side of    *)
(* another type has none.                                                  *)
C3_AssignmentDiagnostic ==
    flagAssign =>
        \A a \in VisitedOf("AssignStmt") :
            \A i \in 1..(NumKids(a) - NodeAt(a).nlhs) :
                LET e == Kid(a, NodeAt(a).nlhs + i)
                    lhs == Kid(a, i)
                    want == ~IsDefnSelector(lhs) /\ NodeAt(lhs).tv.type = IrNode
                IN  /\ (e \in visited /\ NodeAt(e).tv = Val(PtrIrName)) =>
                           /\ Count(diags, e, AssignMsg) = IF want THEN 1 ELSE 0
                           /\ CountAt(diags, e) = IF want THEN 1 ELSE 0
                    /\ NodeAt(e).tv.type # PtrIrName => CountAt(diags, e) = 0

C3_Witness ==
    /\ flagAssign
    /\ \E a \in VisitedOf("AssignStmt") :
          /\ NodeAt(a).nlhs = 2
          /\ IsDefnSelector(Kid(a, 1)) /\ NodeAt(Kid(a, 1)).tv.type = IrNode
          /\ NodeAt(Kid(a, 2)).tv = Val(IrNode)
          /\ NodeAt(Kid(a, 3)).tv = Val(PtrIrName)
          /\ NodeAt(Kid(a, 4)).tv = Val(PtrIrName)
          /\ Count(diags, Kid(a, 3), AssignMsg) = 0
          /\ Count(diags, Kid(a, 4), AssignMsg) = 1

\* The parent and the top of an invocation of the resolver.
TopOf(c) == c.stack[Len(c.stack)]
ParentOf(c) == c.stack[Len(c.stack) - 1]
ParentKind(c) == NodeAt(ParentOf(c)).kind
\* The top is one of the parent's right-hand sides / arguments / results.
Listed(c) ==
    LET p == ParentOf(c)
        first == CASE ParentKind(c) = "AssignStmt" -> NodeAt(p).nlhs + 1
                   [] ParentKind(c) = "CallExpr" -> 2
                   [] OTHER -> 1
    IN  \E i \in first..Len(NodeAt(p).kids) : TopOf(c) = Kid(p, i)
ResolverKinds == {"AssignStmt", "CallExpr", "ReturnStmt"}
CalleeOf(c) == NodeAt(Kid(ParentOf(c), 1)).tv
HasEnclosingFunc(c) ==
    \E i \in 1..Len(c.stack) : NodeAt(c.stack[i]).kind \in {"FuncLit", "FuncDecl"}

(* C4, as claimed: an invocation of the resolver whose parent is not an    *)
(* assignment, call or return, or whose parent is one of the three but     *)
(* does not list the stack top among its right-hand sides, arguments or    *)
(* results, ends in a panic.                                               *)
C4_AlwaysAborts ==
    \A c \in calls :
        (ParentKind(c) \notin ResolverKinds \/ ~Listed(c)) => c.res.panic # ""

(* C4, amended: the resolver panics when the parent is a call whose callee *)
(* is a value, or a return statement, that does not list the stack top;    *)
(* it returns false, without a panic, when the parent is of another kind,  *)
(* is an assignment that does not list the top among its right-hand sides, *)
(* or is a call whose callee is not a value.                               *)
C4_AbortsOrFalse ==
    \A c \in calls :
        /\ ParentKind(c) \notin ResolverKinds => c.res = Ret(FALSE)
        /\ (ParentKind(c) = "AssignStmt" /\ ~Listed(c)) => c.res = Ret(FALSE)
        /\ (ParentKind(c) = "CallExpr" /\ CalleeOf(c).mode # "value") =>
               c.res = Ret(FALSE)
        /\ (ParentKind(c) = "CallExpr" /\ CalleeOf(c).mode = "value" /\ ~Listed(c)) =>
               c.res.panic \in {DidntFind, NotSignature}
        /\ (ParentKind(c) = "CallExpr" /\ CalleeOf(c).mode = "value" /\ ~Listed(c)
            /\ CalleeOf(c).type.k = "Signature") => c.res.panic = DidntFind
        /\ (ParentKind(c) = "ReturnStmt" /\ ~Listed(c)) =>
               c.res.panic = IF HasEnclosingFunc(c) THEN DidntFind ELSE NoEnclosing

C4_Witness ==
    \E c \in calls :
        /\ ParentKind(c) = "CallExpr" /\ ~Listed(c)
        /\ CalleeOf(c).mode = "value"
        /\ c.res.panic = DidntFind

\* The underlying type of the callee's type.
Underlying(t) == IF t.k = "Named" THEN t.under ELSE t

\* The type the argument with index i (from 0) of call c is matched against.
ExpectedParam(c, sig, i) ==
    IF sig.variadic /\ ~NodeAt(c).ellipsis /\ i >= Len(sig.params) - 1
    THEN sig.params[Len(sig.params)].elem
    ELSE sig.params[i + 1]

\* The arguments of type *ir.Name of the visited calls whose callee is a
\* func value with a type among kinds are flagged iff the matching
\* parameter type (the element type in the variadic slot) is ir.Node.
ArgsMatched(kinds) ==
    \A c \in VisitedOf("CallExpr") :
        LET f == NodeAt(Kid(c, 1)).tv
        IN  (f.mode = "value" /\ f.type.k \in kinds
             /\ Underlying(f.type).k = "Signature") =>
                \A i \in 0..(Len(NodeAt(c).kids) - 2) :
                    LET e == Kid(c, i + 2)
                        want == ExpectedParam(c, Underlying(f.type), i) = IrNode
                    IN  (e \in visited /\ NodeAt(e).tv = Val(PtrIrName)) =>
                            Count(diags, e, AssignMsg) = IF want THEN 1 ELSE 0

(* C5: with the detector enabled, in every call of a func value the        *)
(* arguments of type *ir.Name are matched against the element type of the  *)
(* variadic parameter when they land in the variadic slot of a call        *)
(* without spread, and against the parameter of the same index otherwise.  *)
C5_VariadicMatching == flagAssign => ArgsMatched({"Signature", "Named"})

\* The same, for the callees whose type is a signature itself.
C5_PlainSignatureCallee == flagAssign => ArgsMatched({"Signature"})

C5_PlainWitness ==
    /\ flagAssign
    /\ \E c \in VisitedOf("CallExpr") :
          LET f == NodeAt(Kid(c, 1)).tv
          IN  /\ f.mode = "value" /\ f.type.k = "Signature"
              /\ f.type.variadic /\ Len(f.type.params) = 2
              /\ f.type.params[1] = PtrIrName
              /\ f.type.params[2] = Slice(IrNode)
              /\ Len(NodeAt(c).kids) = 4
              /\ Count(diags, Kid(c, 2), AssignMsg) = 0
              /\ Count(diags, Kid(c, 3), AssignMsg) = 1
              /\ Count(diags, Kid(c, 4), AssignMsg) = 1

\* The diagnostics of ds that are not the assignment detector's.
RECURSIVE WithoutAssign(_)
WithoutAssign(ds) ==
    IF ds = <<>> THEN <<>>
    ELSE IF Head(ds).msg = AssignMsg THEN WithoutAssign(Tail(ds))
    ELSE <<Head(ds)>> \o WithoutAssign(Tail(ds))
IsPrefix(a, b) == Len(a) <= Len(b) /\ SubSeq(b, 1, Len(a)) = a

Rank(msg) == IF msg = AssignMsg THEN 2 ELSE 1

C8_State ==
    /\ proceed
    /\ \A i, j \in 1..Len(diags) :
          i < j =>
             \/ PreorderLess(diags[i].pos, diags[j].pos)
             \/ diags[i].pos = diags[j].pos /\ Rank(diags[i].msg) < Rank(diags[j].msg)
    /\ (pc \in {"finished", "done"} /\ panicked = "") =>
          /\ visited = AllRefs
          /\ \A n \in AllRefs :
                (NodeAt(n).kind = "MapType" /\ NodeAt(Kid(n, 1)).tv.type = IrNode) =>
                    Count(diags, n, MapMsg) = 1

\* A step of the traversal that pops the stack reports nothing.
C8_PopStep == (pc = "walking" /\ Len(stack') < Len(stack)) => diags' = diags

(* C8: the callback always returns true; a pop event reports nothing; an   *)
(* execution that ends without a panic has visited every node of the tree  *)
(* (so a flagged map type inside a flagged map type is reported as well);  *)
(* the diagnostics are in depth-first preorder of their nodes and, for one *)
(* node, the map-key or comparison diagnostic precedes the assignment one. *)
C8_PushOnlyPreorder == [](C8_State) /\ [][C8_PopStep]_vars

C8_Witness ==
    /\ pc = "finished" /\ panicked = ""
    /\ \E n \in AllRefs :
          /\ NodeAt(n).kind = "MapType" /\ NodeAt(Kid(n, 2)).kind = "MapType"
          /\ diags = <<[pos |-> n, msg |-> MapMsg], [pos |-> Kid(n, 2), msg |-> MapMsg]>>

\* The signature go/types records for the function node f.
SigOf(f) ==
    IF NodeAt(f).kind = "FuncLit" THEN NodeAt(f).tv.type
    ELSE NodeAt(Kid(f, 1)).obj.type
\* The lengths of the prefixes of r that are function literals or declarations.
EnclosingFuncs(r) ==
    {k \in 0..Len(r) : NodeAt(SubSeq(r, 1, k)).kind \in {"FuncLit", "FuncDecl"}}

(* C9: with the detector enabled, a visited result i of type *ir.Name of a *)
(* return statement is flagged iff result i of the signature of the        *)
(* innermost enclosing function literal or declaration is ir.Node; when    *)
(* no function encloses the return statement the execution panics.         *)
C9_InnermostFunction ==
    flagAssign =>
        \A r \in VisitedOf("ReturnStmt") :
            \A i \in 1..Len(NodeAt(r).kids) :
                LET e == Kid(r, i)
                    fs == EnclosingFuncs(r)
                    inner == SubSeq(r, 1, Max(fs))
                IN  (e \in visited /\ NodeAt(e).tv = Val(PtrIrName)) =>
                        IF fs = {}
                        THEN panicked = NoEnclosing /\ CountAt(diags, e) = 0
                        ELSE Count(diags, e, AssignMsg) =
                                 IF SigOf(inner).results[i] = IrNode THEN 1 ELSE 0

C9_Witness ==
    /\ flagAssign
    /\ \E r \in VisitedOf("ReturnStmt") :
          LET fs == EnclosingFuncs(r)
              inner == SubSeq(r, 1, Max(fs))
              outer == SubSeq(r, 1, Min(fs))
          IN  /\ Cardinality(fs) = 2
              /\ NodeAt(inner).kind = "FuncLit" /\ NodeAt(outer).kind = "FuncDecl"
              /\ SigOf(inner).results = <<PtrIrName, IrNode>>
              /\ SigOf(outer).results = <<IrNode, PtrIrName>>
              /\ NodeAt(Kid(r, 1)).tv = Val(PtrIrName)
              /\ NodeAt(Kid(r, 2)).tv = Val(PtrIrName)
              /\ Count(diags, Kid(r, 1), AssignMsg) = 0
              /\ Count(diags, Kid(r, 2), AssignMsg) = 1

(* C10: the resolver is only ever invoked on an expression that is a       *)
(* value (of type *ir.Name); and the arguments of a call whose callee is not a value (a       *)
(* conversion, a builtin) get no diagnostic and cause no panic: each       *)
(* invocation of the resolver under such a call returns false.             *)
C10_NonValueCallee ==
    /\ \A c \in calls : NodeAt(TopOf(c)).tv = Val(PtrIrName)
    /\ \A p \in VisitedOf("CallExpr") :
          NodeAt(Kid(p, 1)).tv.mode # "value" =>
             /\ \A i \in 2..Len(NodeAt(p).kids) : CountAt(diags, Kid(p, i)) = 0
             /\ \A c \in calls : ParentOf(c) = p => c.res = Ret(FALSE)

C10_Witness ==
    /\ flagAssign /\ pc = "finished" /\ panicked = ""
    /\ \E c \in calls :
          /\ ParentKind(c) = "CallExpr"
          /\ CalleeOf(c) = TypeExpr(IrNode)
          /\ NodeAt(TopOf(c)).tv = Val(PtrIrName)
          /\ c.res = Ret(FALSE)
          /\ diags = <<>>
====
